---- MODULE Spec2Model ----
(***************************************************************************)
(* Model of the BIM Vision Pro backend's result cache (CacheService) and   *)
(* of the request handlers that use it.                                    *)
(*                                                                         *)
(* The cache holds two Python dicts, file_cache and analysis_cache, each   *)
(* mapping a fingerprint string to an item {value, timestamp, cached_at},  *)
(* and one TTL.  A dict is modelled as a TLA+ function whose DOMAIN is the *)
(* set of resident keys.  time.time() is the variable now, in seconds.     *)
(***************************************************************************)
EXTENDS Integers, FiniteSets, Sequences, TLC

(***************************************************************************)
(* Program constants and model bounds                                      *)
(***************************************************************************)

\* cache_service = CacheService(ttl_hours=24)
ttl_hours == 24

\* self.ttl_seconds = ttl_hours * 3600
ttl_seconds == ttl_hours * 3600

\* The clock advances by one second or by a whole TTL, so that ages of
\* exactly ttl_seconds and of ttl_seconds + 1 both occur.
Deltas == {1, ttl_seconds}

\* The clock readings of the model: the start, one TTL later, and up to
\* Slack seconds after that.
Slack == 1

Times == {0} \cup {ttl_seconds + a : a \in 0..Slack}

\* Fingerprints (md5 hex digests); both namespaces draw on the same strings.
Keys == {"k1", "k2"}

\* Values handed to cache_file_data by a caller of the cache.
FileValues ==
    { [building_data |-> "b1", analysis |-> "a1"],
      [building_data |-> "b2", analysis |-> "a2"] }

\* Texts handed to cache_analysis by a caller of the cache.
AnalysisValues == {"a1", "a2"}

(***************************************************************************)
(* Python values                                                           *)
(***************************************************************************)

\* Optional[...]: None, or a value v carried as Some(v).
None == [none |-> TRUE]

Some(v) == [some |-> v]

\* {} : the empty dict.
EmptyDict == [x \in {} |-> None]

\* d[k] = v
DictSet(d, k, v) == [x \in (DOMAIN d) \cup {k} |-> IF x = k THEN v ELSE d[x]]

\* del d[k]   (k resident)
DictDel(d, k) == [x \in (DOMAIN d) \ {k} |-> d[x]]

\* len(d)
DictLen(d) == Cardinality(DOMAIN d)

VARIABLES
    now,             \* time.time()
    file_cache,      \* CacheService.file_cache
    analysis_cache,  \* CacheService.analysis_cache
    last,            \* the call that ran last: its name, arguments and result
    file_puts,       \* per key: time and value of the latest put that was
    analysis_puts,   \*   not overwritten, cleared or swept since
    cleared,         \* TRUE from a clear_cache until the next put
    pc,              \* per thread: the statement it executes next
    frame,           \* per thread: the locals of the call it is in
    calls,           \* calls begun by the threads so far
    put_done,        \* per namespace and key: the values of the puts completed
    disturbed,       \* TRUE once a clear, a sweep or a lazy removal has run
    up,              \* per request: where upload_ifc_file stands, and its locals
    loop,            \* the request whose synchronous code the event loop runs
    building_data_store,  \* main.building_data_store
    resp,            \* per request: the response it was given
    uploads,         \* uploads begun so far
    env,             \* OPENAI_API_KEY set or not; supabase_service there or not
    db_rows,         \* rows inserted into analysis_results
    qa,              \* ask_question: requests so far and the last response
    returned,        \* per file hash: what the latest computed upload returned
    st,              \* per server process: where store_analysis_result stands
    user_sessions,   \* table user_sessions: per user_id, total_analyses of its rows
    store_log        \* store_analysis_result: calls begun, ids returned per user

cacheVars == <<file_cache, analysis_cache>>

histVars == <<last, file_puts, analysis_puts, cleared>>

threadVars == <<pc, frame, calls, put_done, disturbed>>

storeVars == <<st, user_sessions, store_log>>

appVars == <<up, loop, building_data_store, resp, uploads, env, db_rows, qa,
            returned, storeVars>>

vars == <<now, file_cache, analysis_cache, last, file_puts, analysis_puts, cleared,
          pc, frame, calls, put_done, disturbed,
          up, loop, building_data_store, resp, uploads, env, db_rows, qa,
          returned, st, user_sessions, store_log>>

(***************************************************************************)
(* CacheService: the methods as functions of the dict and the clock        *)
(***************************************************************************)

\* The item cache_file_data builds.
FileItem(data, t) == [data |-> data, timestamp |-> t, cached_at |-> t]

\* The item cache_analysis builds.
AnalysisItem(analysis, t) == [analysis |-> analysis, timestamp |-> t, cached_at |-> t]

\* cache_file_data that keeps an entry already resident under the key
CacheFileData_keep(cache, file_hash, data, t) ==
    IF file_hash \in DOMAIN cache THEN cache
    ELSE DictSet(cache, file_hash, FileItem(data, t))

\* cache_file_data that drops the expired entries as it stores
CacheFileData_sweep(cache, file_hash, data, t) ==
    LET stored == DictSet(cache, file_hash, FileItem(data, t)) IN
    [k \in {x \in DOMAIN stored : t - stored[x].timestamp <= ttl_seconds} |->
        stored[k]]

\* cache_file_data: self.file_cache[file_hash] = {...}
CacheFileData(cache, file_hash, data, t) ==
    DictSet(cache, file_hash, FileItem(data, t))

\* cache_analysis that gives a resident entry the new text and leaves its
\* time as it was
CacheAnalysis_sametime(cache, data_signature, analysis, t) ==
    IF data_signature \in DOMAIN cache
    THEN DictSet(cache, data_signature,
                 AnalysisItem(analysis, cache[data_signature].timestamp))
    ELSE DictSet(cache, data_signature, AnalysisItem(analysis, t))

\* cache_analysis: self.analysis_cache[data_signature] = {...}
CacheAnalysis(cache, data_signature, analysis, t) ==
    DictSet(cache, data_signature, AnalysisItem(analysis, t))

\* get_cached_file_data with the expiry test age >= ttl_seconds
GetCachedFileData_ge(cache, file_hash, t) ==
    IF file_hash \notin DOMAIN cache
    THEN [cache |-> cache, ret |-> None]
    ELSE LET cached_item == cache[file_hash]
             age == t - cached_item.timestamp
         IN  IF age >= ttl_seconds
             THEN [cache |-> DictDel(cache, file_hash), ret |-> None]
             ELSE [cache |-> cache, ret |-> Some(cached_item.data)]

\* get_cached_file_data: the dict afterwards and the value returned.
GetCachedFileData(cache, file_hash, t) ==
    IF file_hash \notin DOMAIN cache
    THEN [cache |-> cache, ret |-> None]
    ELSE LET cached_item == cache[file_hash]
             age == t - cached_item.timestamp
         IN  IF age > ttl_seconds
             THEN [cache |-> DictDel(cache, file_hash), ret |-> None]
             ELSE [cache |-> cache, ret |-> Some(cached_item.data)]

\* get_cached_analysis that reports an expired entry absent but leaves it
GetCachedAnalysis_nodel(cache, data_signature, t) ==
    IF data_signature \notin DOMAIN cache
    THEN [cache |-> cache, ret |-> None]
    ELSE LET cached_item == cache[data_signature]
             age == t - cached_item.timestamp
         IN  IF age > ttl_seconds
             THEN [cache |-> cache, ret |-> None]
             ELSE [cache |-> cache, ret |-> Some(cached_item.analysis)]

\* get_cached_analysis: the dict afterwards and the value returned.
GetCachedAnalysis(cache, data_signature, t) ==
    IF data_signature \notin DOMAIN cache
    THEN [cache |-> cache, ret |-> None]
    ELSE LET cached_item == cache[data_signature]
             age == t - cached_item.timestamp
         IN  IF age > ttl_seconds
             THEN [cache |-> DictDel(cache, data_signature), ret |-> None]
             ELSE [cache |-> cache, ret |-> Some(cached_item.analysis)]

\* statistics that count the entries still within their TTL
GetCacheStats_live(fc, ac) ==
    [file_cache_size |->
         Cardinality({k \in DOMAIN fc : now - fc[k].timestamp <= ttl_seconds}),
     analysis_cache_size |->
         Cardinality({k \in DOMAIN ac : now - ac[k].timestamp <= ttl_seconds}),
     ttl_hours |-> ttl_seconds \div 3600]

\* get_cache_stats
GetCacheStats(fc, ac) ==
    [file_cache_size |-> DictLen(fc),
     analysis_cache_size |-> DictLen(ac),
     ttl_hours |-> ttl_seconds \div 3600]

\* expired_files with the expiry test >= ttl_seconds
ExpiredFiles_ge(fc, current_time) ==
    {key \in DOMAIN fc : current_time - fc[key].timestamp >= ttl_seconds}

\* cleanup_expired: expired_files = [key for key, value in ... if ...]
ExpiredFiles(fc, current_time) ==
    {key \in DOMAIN fc : current_time - fc[key].timestamp > ttl_seconds}

\* cleanup_expired: expired_analyses = [key for key, value in ... if ...]
ExpiredAnalyses(ac, current_time) ==
    {key \in DOMAIN ac : current_time - ac[key].timestamp > ttl_seconds}

\* a sweep that lists the expired keys and deletes none
DelAll_none(cache, expired) == cache

\* for key in expired: del cache[key]
DelAll(cache, expired) == [x \in (DOMAIN cache) \ expired |-> cache[x]]

\* cleanup_expired, file namespace
CleanupFiles(fc, current_time) == DelAll(fc, ExpiredFiles(fc, current_time))

\* the analysis half of cleanup_expired deleting the keys of expired_files too
CleanupAnalyses_cross(fc, ac, current_time) ==
    DelAll(ac, ExpiredFiles(fc, current_time) \cup ExpiredAnalyses(ac, current_time))

\* cleanup_expired, analysis namespace
CleanupAnalyses(fc, ac, current_time) == DelAll(ac, ExpiredAnalyses(ac, current_time))

\* a clear that deletes one entry per call
ClearFiles_one(fc) ==
    IF DOMAIN fc = {} THEN fc ELSE DictDel(fc, CHOOSE k \in DOMAIN fc : TRUE)

\* self.file_cache.clear()
ClearFiles(fc) == EmptyDict

\* clear_cache that leaves the analysis dict alone
ClearAnalyses_noop(ac) == ac

\* self.analysis_cache.clear()
ClearAnalyses(ac) == EmptyDict

(***************************************************************************)
(* The cache driven by one caller at a time: every action is one whole     *)
(* method call.  last records the call for the properties below: its name, *)
(* key, argument and result, what the key's entry was when the call began  *)
(* (was) and how many entries the call deleted from each dict (removed).   *)
(***************************************************************************)

NoKey == "-"

Removed(f, a) == [files |-> f, analyses |-> a]

\* isFresh: now - insertedAt <= ttl
KeyStatus(cache, key, t) ==
    IF key \notin DOMAIN cache THEN "absent"
    ELSE IF t - cache[key].timestamp <= ttl_seconds THEN "fresh"
    ELSE "stale"

Call(op, key, arg, ret, was, removed) ==
    [op |-> op, key |-> key, arg |-> arg, ret |-> ret, was |-> was,
     removed |-> removed]

\* The threads that share the cache.
Threads == {"t1", "t2"}

\* The calls the threads begin, all together.
MaxCalls == 3

Namespaces == {"file", "analysis"}

\* The locals of a call: the namespace and key it works on, the item it
\* built or read, current_time, the list of expired keys, the size of the
\* dict when the iteration over it began, and the exception raised.
IdleFrame ==
    [ns |-> "-", key |-> NoKey, item |-> None, current_time |-> 0,
     expired |-> {}, n0 |-> 0, exc |-> "-"]

NoPuts == [ns \in Namespaces |-> EmptyDict]

\* The requests in flight at once.
Requests == {"r1", "r2"}

NoRequest == "-"

\* The uploads begun, all together.
MaxUploads == 2

\* The process environment: whether OPENAI_API_KEY is set, and whether
\* SupabaseService() could be built when main was imported.
Environments == [api_key : BOOLEAN, supabase : BOOLEAN]

NoText == "-"

\* The server processes that share the database.
Processes == {"p1", "p2"}

\* The user_id of a request.
Users == {"anonymous", "u2"}

\* The calls of store_analysis_result begun, all together.
MaxStores == 3

\* The locals of store_analysis_result and _update_user_session: found is
\* `result.data` being non-empty.
IdleStore == [pc |-> "idle", user_id |-> "-", found |-> FALSE, current_count |-> 0]

\* No call yet: calls begun, ids returned per user, and the session updates
\* that raised.
NoStores == [begun |-> 0, returned |-> [u \in Users |-> 0], failures |-> 0]

\* The locals of upload_ifc_file; parsed and llm tell whether this request
\* ran the parser and called the model.
IdleUpload ==
    [pc |-> "idle", filename |-> "-", content |-> "-", file_hash |-> NoKey,
     building_data |-> None, data_signature |-> NoKey, analysis |-> NoText,
     parsed |-> FALSE, llm |-> FALSE]

NoResponse ==
    [status |-> 0, cached |-> FALSE, building_data |-> None, analysis |-> NoText,
     analysis_id |-> None, content |-> "-", parsed |-> FALSE, llm |-> FALSE]

\* No question asked yet.  llm_calls counts the model calls made for
\* questions, rows the rows inserted into qa_interactions, and asked is the
\* set of <<question, record>> pairs answered so far.
NoAnswer ==
    [status |-> 0, detail |-> "-", about |-> None, answer |-> NoText,
     llm_calls |-> 0, rows |-> 0, asked |-> {}]

Init ==
    /\ now = 0
    /\ file_cache = EmptyDict
    /\ analysis_cache = EmptyDict
    /\ last = Call("init", NoKey, None, None, "-", Removed(0, 0))
    /\ file_puts = EmptyDict
    /\ analysis_puts = EmptyDict
    /\ cleared = FALSE
    /\ pc = [t \in Threads |-> "idle"]
    /\ frame = [t \in Threads |-> IdleFrame]
    /\ calls = 0
    /\ put_done = NoPuts
    /\ disturbed = FALSE
    /\ up = [r \in Requests |-> IdleUpload]
    /\ loop = NoRequest
    /\ building_data_store = EmptyDict
    /\ resp = [r \in Requests |-> NoResponse]
    /\ uploads = 0
    /\ env = [api_key |-> TRUE, supabase |-> TRUE]
    /\ db_rows = 0
    /\ qa = NoAnswer
    /\ returned = EmptyDict
    /\ st = [p \in Processes |-> IdleStore]
    /\ user_sessions = EmptyDict
    /\ store_log = NoStores

\* time passes between calls
Tick ==
    \E d \in Deltas :
        /\ now + d \in Times
        /\ now' = now + d
        /\ last' = Call("tick", NoKey, None, None, "-", Removed(0, 0))
        /\ UNCHANGED <<cacheVars, file_puts, analysis_puts, cleared, threadVars, appVars>>

cache_file_data ==
    \E file_hash \in Keys, data \in FileValues :
        /\ file_cache' = CacheFileData(file_cache, file_hash, data, now)
        /\ last' = Call("cache_file_data", file_hash, Some(data), None,
                        KeyStatus(file_cache, file_hash, now), Removed(0, 0))
        /\ file_puts' = DictSet(file_puts, file_hash, [t0 |-> now, value |-> data])
        /\ cleared' = FALSE
        /\ UNCHANGED <<now, analysis_cache, analysis_puts, threadVars, appVars>>

get_cached_file_data ==
    \E file_hash \in Keys :
        LET r == GetCachedFileData(file_cache, file_hash, now) IN
        /\ file_cache' = r.cache
        /\ last' = Call("get_cached_file_data", file_hash, None, r.ret,
                        KeyStatus(file_cache, file_hash, now),
                        Removed(DictLen(file_cache) - DictLen(r.cache), 0))
        /\ UNCHANGED <<now, analysis_cache, file_puts, analysis_puts, cleared, threadVars, appVars>>

cache_analysis ==
    \E data_signature \in Keys, analysis \in AnalysisValues :
        /\ analysis_cache' = CacheAnalysis(analysis_cache, data_signature, analysis, now)
        /\ last' = Call("cache_analysis", data_signature, Some(analysis), None,
                        KeyStatus(analysis_cache, data_signature, now), Removed(0, 0))
        /\ analysis_puts' =
               DictSet(analysis_puts, data_signature, [t0 |-> now, value |-> analysis])
        /\ cleared' = FALSE
        /\ UNCHANGED <<now, file_cache, file_puts, threadVars, appVars>>

get_cached_analysis ==
    \E data_signature \in Keys :
        LET r == GetCachedAnalysis(analysis_cache, data_signature, now) IN
        /\ analysis_cache' = r.cache
        /\ last' = Call("get_cached_analysis", data_signature, None, r.ret,
                        KeyStatus(analysis_cache, data_signature, now),
                        Removed(0, DictLen(analysis_cache) - DictLen(r.cache)))
        /\ UNCHANGED <<now, file_cache, file_puts, analysis_puts, cleared, threadVars, appVars>>

get_cache_stats ==
    /\ last' = Call("get_cache_stats", NoKey, None,
                    Some(GetCacheStats(file_cache, analysis_cache)), "-", Removed(0, 0))
    /\ UNCHANGED <<now, cacheVars, file_puts, analysis_puts, cleared, threadVars, appVars>>

\* For a clear_cache, was tells whether the call before it was a
\* clear_cache too, and whether that one deleted anything.
CallBefore ==
    IF last.op # "clear_cache" THEN "-"
    ELSE IF last.removed = Removed(0, 0) THEN "cleared nothing"
    ELSE "cleared"

clear_cache ==
    /\ file_cache' = ClearFiles(file_cache)
    /\ analysis_cache' = ClearAnalyses(analysis_cache)
    /\ last' = Call("clear_cache", NoKey, None, None, CallBefore,
                    Removed(DictLen(file_cache) - DictLen(file_cache'),
                            DictLen(analysis_cache) - DictLen(analysis_cache')))
    /\ file_puts' = EmptyDict
    /\ analysis_puts' = EmptyDict
    /\ cleared' = TRUE
    /\ UNCHANGED <<now, threadVars, appVars>>

cleanup_expired ==
    /\ file_cache' = CleanupFiles(file_cache, now)
    /\ analysis_cache' = CleanupAnalyses(file_cache, analysis_cache, now)
    /\ last' = Call("cleanup_expired", NoKey, None, None, "-",
                    Removed(DictLen(file_cache) - DictLen(file_cache'),
                            DictLen(analysis_cache) - DictLen(analysis_cache')))
    \* a put stops counting once a sweep has removed its entry
    /\ file_puts' = DelAll(file_puts, (DOMAIN file_puts) \ (DOMAIN file_cache'))
    /\ analysis_puts' =
           DelAll(analysis_puts, (DOMAIN analysis_puts) \ (DOMAIN analysis_cache'))
    /\ UNCHANGED <<now, cleared, threadVars, appVars>>

Next ==
    \/ Tick
    \/ cache_file_data
    \/ get_cached_file_data
    \/ cache_analysis
    \/ get_cached_analysis
    \/ get_cache_stats
    \/ clear_cache
    \/ cleanup_expired

Spec == Init /\ [][Next]_vars

(***************************************************************************)
(* The cache shared by threads.  CacheService takes no lock, so the        *)
(* statements of its methods interleave: every action below is one         *)
(* statement (one access to a shared dict or to the clock) of one thread.  *)
(* A statement that fails puts its thread in "raised".                     *)
(***************************************************************************)

CacheOf(ns) == IF ns = "file" THEN file_cache ELSE analysis_cache

SetCache(ns, c) ==
    IF ns = "file"
    THEN file_cache' = c /\ UNCHANGED analysis_cache
    ELSE analysis_cache' = c /\ UNCHANGED file_cache

\* The value a thread puts: each thread has its own.
ThreadValue(t, ns) ==
    IF ns = "file"
    THEN IF t = "t1" THEN [building_data |-> "b1", analysis |-> "a1"]
                     ELSE [building_data |-> "b2", analysis |-> "a2"]
    ELSE IF t = "t1" THEN "a1" ELSE "a2"

NewItem(ns, value, t) ==
    IF ns = "file" THEN FileItem(value, t) ELSE AnalysisItem(value, t)

ItemValue(ns, item) == IF ns = "file" THEN item.data ELSE item.analysis

ExpiredKeys(ns, current_time) ==
    IF ns = "file"
    THEN ExpiredFiles(file_cache, current_time)
    ELSE ExpiredAnalyses(analysis_cache, current_time)

Goto(t, label, f) ==
    /\ pc' = [pc EXCEPT ![t] = label]
    /\ frame' = [frame EXCEPT ![t] = f]

Return(t) == Goto(t, "idle", IdleFrame)

Raise(t, exc) == Goto(t, "raised", [IdleFrame EXCEPT !.exc = exc])

Begin(t) ==
    /\ pc[t] = "idle"
    /\ calls < MaxCalls
    /\ calls' = calls + 1

Disturb ==
    /\ disturbed' = TRUE
    /\ put_done' = NoPuts

\* time passes between statements
t_tick ==
    \E d \in Deltas :
        /\ now + d \in Times
        /\ now' = now + d
        /\ UNCHANGED <<cacheVars, histVars, appVars, threadVars>>

\* get: if key not in cache: return None
t_get_contains(t) ==
    /\ Begin(t)
    /\ \E ns \in Namespaces, key \in Keys :
           IF key \notin DOMAIN CacheOf(ns)
           THEN Return(t)
           ELSE Goto(t, "get_item", [IdleFrame EXCEPT !.ns = ns, !.key = key])
    /\ UNCHANGED <<now, cacheVars, histVars, appVars, put_done, disturbed>>

\* get: cached_item = cache[key]
t_get_item(t) ==
    /\ pc[t] = "get_item"
    /\ LET f == frame[t] IN
       IF f.key \notin DOMAIN CacheOf(f.ns)
       THEN Raise(t, "KeyError")
       ELSE Goto(t, "get_age", [f EXCEPT !.item = CacheOf(f.ns)[f.key]])
    /\ UNCHANGED <<now, cacheVars, histVars, appVars, calls, put_done, disturbed>>

\* get: age = time.time() - cached_item['timestamp']; if age > ttl_seconds
t_get_age(t) ==
    /\ pc[t] = "get_age"
    /\ LET f == frame[t]
           age == now - f.item.timestamp
       IN  IF age > ttl_seconds
           THEN Goto(t, "get_del", f)
           ELSE Return(t)
    /\ UNCHANGED <<now, cacheVars, histVars, appVars, calls, put_done, disturbed>>

\* get: del cache[key]; return None
t_get_del(t) ==
    /\ pc[t] = "get_del"
    /\ LET f == frame[t] IN
       IF f.key \notin DOMAIN CacheOf(f.ns)
       THEN /\ Raise(t, "KeyError")
            /\ UNCHANGED <<cacheVars, put_done, disturbed>>
       ELSE /\ SetCache(f.ns, DictDel(CacheOf(f.ns), f.key))
            /\ Return(t)
            /\ Disturb
    /\ UNCHANGED <<now, histVars, appVars, calls>>

\* put: the item literal is built, reading time.time()
t_put_build(t) ==
    /\ Begin(t)
    /\ \E ns \in Namespaces, key \in Keys :
           Goto(t, "put_store",
                [IdleFrame EXCEPT !.ns = ns, !.key = key,
                                  !.item = NewItem(ns, ThreadValue(t, ns), now)])
    /\ UNCHANGED <<now, cacheVars, histVars, appVars, put_done, disturbed>>

\* the store of a put that rebuilds the dict around the new item
StoreItem_rebuild(cache, key, item) == [x \in {key} |-> item]

\* the store of a put that keeps the timestamps of the entry it replaces
StoreItem_torn(cache, key, item) ==
    IF key \in DOMAIN cache
    THEN DictSet(cache, key, [item EXCEPT !.timestamp = cache[key].timestamp,
                                          !.cached_at = cache[key].cached_at])
    ELSE DictSet(cache, key, item)

\* self.file_cache[file_hash] = {...}: the subscript assignment
StoreItem(cache, key, item) == DictSet(cache, key, item)

\* put: cache[key] = item
t_put_store(t) ==
    /\ pc[t] = "put_store"
    /\ LET f == frame[t] IN
       /\ SetCache(f.ns, StoreItem(CacheOf(f.ns), f.key, f.item))
       /\ put_done' =
              IF disturbed THEN put_done
              ELSE [put_done EXCEPT ![f.ns] =
                       DictSet(@, f.key,
                               (IF f.key \in DOMAIN @ THEN @[f.key] ELSE {})
                                   \cup {f.item})]
    /\ Return(t)
    /\ UNCHANGED <<now, histVars, appVars, calls, disturbed>>

\* clear_cache: file_count = len(...); self.file_cache.clear()
t_clear_files(t) ==
    /\ Begin(t)
    /\ file_cache' = ClearFiles(file_cache)
    /\ Goto(t, "clear_analyses", IdleFrame)
    /\ Disturb
    /\ UNCHANGED <<now, analysis_cache, histVars, appVars>>

\* clear_cache: self.analysis_cache.clear()
t_clear_analyses(t) ==
    /\ pc[t] = "clear_analyses"
    /\ analysis_cache' = ClearAnalyses(analysis_cache)
    /\ Return(t)
    /\ UNCHANGED <<now, file_cache, histVars, appVars, calls, put_done, disturbed>>

\* get_cache_stats: len(self.file_cache)
t_stats_files(t) ==
    /\ Begin(t)
    /\ Goto(t, "stats_analyses", [IdleFrame EXCEPT !.n0 = DictLen(file_cache)])
    /\ UNCHANGED <<now, cacheVars, histVars, appVars, put_done, disturbed>>

\* get_cache_stats: len(self.analysis_cache); return
t_stats_analyses(t) ==
    /\ pc[t] = "stats_analyses"
    /\ Return(t)
    /\ UNCHANGED <<now, cacheVars, histVars, appVars, calls, put_done, disturbed>>

\* cleanup_expired: current_time = time.time()
t_sweep_time(t) ==
    /\ Begin(t)
    /\ Goto(t, "scan_begin", [IdleFrame EXCEPT !.ns = "file", !.current_time = now])
    /\ Disturb
    /\ UNCHANGED <<now, cacheVars, histVars, appVars>>

\* cleanup_expired: the iteration over cache.items() begins
t_scan_begin(t) ==
    /\ pc[t] = "scan_begin"
    /\ Goto(t, "scan_end", [frame[t] EXCEPT !.n0 = DictLen(CacheOf(frame[t].ns))])
    /\ UNCHANGED <<now, cacheVars, histVars, appVars, calls, put_done, disturbed>>

\* After one namespace of the sweep: on to the analysis cache, or return.
NextPhase(t, f) ==
    IF f.ns = "file"
    THEN Goto(t, "scan_begin", [f EXCEPT !.ns = "analysis", !.expired = {}, !.n0 = 0])
    ELSE Return(t)

\* cleanup_expired: the iteration ends with the list of expired keys, or
\* fails because the dict changed size while it ran
t_scan_end(t) ==
    /\ pc[t] = "scan_end"
    /\ LET f == frame[t]
           expired == ExpiredKeys(f.ns, f.current_time)
       IN  IF DictLen(CacheOf(f.ns)) # f.n0
           THEN Raise(t, "RuntimeError")
           ELSE IF expired = {}
                THEN NextPhase(t, f)
                ELSE Goto(t, "sweep_del", [f EXCEPT !.expired = expired])
    /\ UNCHANGED <<now, cacheVars, histVars, appVars, calls, put_done, disturbed>>

\* cleanup_expired: for key in expired: del cache[key]
t_sweep_del(t) ==
    /\ pc[t] = "sweep_del"
    /\ LET f == frame[t] IN
       \E key \in f.expired :
           IF key \notin DOMAIN CacheOf(f.ns)
           THEN /\ Raise(t, "KeyError")
                /\ UNCHANGED cacheVars
           ELSE /\ SetCache(f.ns, DictDel(CacheOf(f.ns), key))
                /\ IF f.expired \ {key} = {}
                   THEN NextPhase(t, f)
                   ELSE Goto(t, "sweep_del", [f EXCEPT !.expired = @ \ {key}])
    /\ UNCHANGED <<now, histVars, appVars, calls, put_done, disturbed>>

ThreadNext ==
    \/ t_tick
    \/ \E t \in Threads : t_get_contains(t)
    \/ \E t \in Threads : t_get_item(t)
    \/ \E t \in Threads : t_get_age(t)
    \/ \E t \in Threads : t_get_del(t)
    \/ \E t \in Threads : t_put_build(t)
    \/ \E t \in Threads : t_put_store(t)
    \/ \E t \in Threads : t_clear_files(t)
    \/ \E t \in Threads : t_clear_analyses(t)
    \/ \E t \in Threads : t_stats_files(t)
    \/ \E t \in Threads : t_stats_analyses(t)
    \/ \E t \in Threads : t_sweep_time(t)
    \/ \E t \in Threads : t_scan_begin(t)
    \/ \E t \in Threads : t_scan_end(t)
    \/ \E t \in Threads : t_sweep_del(t)

SpecThreads == Init /\ [][ThreadNext]_vars

(***************************************************************************)
(* The application: upload_ifc_file on one event loop.  The handler is a   *)
(* coroutine whose only await is file.read(); from there to its return it  *)
(* runs without yielding, so one request at a time (loop) is inside that   *)
(* part, while the clock goes on.                                          *)
(***************************************************************************)

\* What a client uploads: a file name and the bytes.
UploadInputs ==
    { [filename |-> "a.ifc", content |-> "c1"],
      [filename |-> "a.ifc", content |-> "c2"],
      [filename |-> "B.IFC", content |-> "c2"],
      [filename |-> "a.ifc", content |-> "bad"],
      [filename |-> "n.txt", content |-> "c1"],
      [filename |-> "a.ifc", content |-> "big"] }

\* file.filename.lower().endswith('.ifc')
EndsWithIfc(filename) == filename \in {"a.ifc", "B.IFC"}

\* MAX_FILE_SIZE = 500 * 1024 * 1024
MAX_FILE_SIZE == 500 * 1024 * 1024

\* len(content)
FileSize(content) == IF content = "big" THEN MAX_FILE_SIZE + 1 ELSE 1024

\* hashlib.md5(content).hexdigest(): distinct bytes, distinct digests
get_file_hash(content) == "md5(" \o content \o ")"

\* ifcopenshell.open succeeds on the file
Parses(content) == content # "bad"

\* parser.extract_full_data(): c1 and c2 are different bytes describing the
\* same building; file_path is part of the record
ExtractFullData(content, filename) ==
    [parsed |-> IF content \in {"c1", "c2"} THEN "rec1" ELSE "rec2",
     file_path |-> "uploads/" \o filename]

\* md5 of json.dumps(data, sort_keys=True, default=str)
get_data_signature(data) == "md5(" \o data.parsed \o "," \o data.file_path \o ")"

\* What the model call does: it returns a text, or it raises.
LlmOutcomes ==
    { [ok |-> TRUE, text |-> "a1"], [ok |-> TRUE, text |-> "a2"],
      [ok |-> TRUE, text |-> ""], [ok |-> FALSE, text |-> NoText] }

\* analyze_building's except branch: the message it returns in place of an
\* analysis
ErrorText == "Error in analysis"

\* a test that takes every look-up for a miss
TruthyData_never(opt) == FALSE

\* if cached_data:   (a dict with two keys, or None)
TruthyData(opt) == opt # None

\* if cached_analysis:   (a str, or None)
TruthyText(opt) == opt # None /\ opt.some # ""

\* except ValueError -> 400; except Exception -> 500
ErrorStatus(exc) == IF exc = "ValueError" THEN 400 ELSE 500

Response(u, status, cached, building_data, analysis, analysis_id) ==
    [status |-> status, cached |-> cached, building_data |-> building_data,
     analysis |-> analysis, analysis_id |-> analysis_id,
     content |-> u.content, parsed |-> u.parsed, llm |-> u.llm]

\* The "building_data" and "analysis" of a response.
Body(response) ==
    [building_data |-> response.building_data, analysis |-> response.analysis]

\* The handler leaves through one of its except branches.
Fail(r, u, exc) ==
    /\ resp' = [resp EXCEPT ![r] =
                   Response(u, ErrorStatus(exc), FALSE, None, NoText, None)]
    /\ up' = [up EXCEPT ![r] = IdleUpload]

AppInit ==
    /\ now = 0
    /\ file_cache = EmptyDict
    /\ analysis_cache = EmptyDict
    /\ last = Call("init", NoKey, None, None, "-", Removed(0, 0))
    /\ file_puts = EmptyDict
    /\ analysis_puts = EmptyDict
    /\ cleared = FALSE
    /\ pc = [t \in Threads |-> "idle"]
    /\ frame = [t \in Threads |-> IdleFrame]
    /\ calls = 0
    /\ put_done = NoPuts
    /\ disturbed = FALSE
    /\ up = [r \in Requests |-> IdleUpload]
    /\ loop = NoRequest
    /\ building_data_store = EmptyDict
    /\ resp = [r \in Requests |-> NoResponse]
    /\ uploads = 0
    /\ env \in Environments
    /\ db_rows = 0
    /\ qa = NoAnswer
    /\ returned = EmptyDict
    /\ st = [p \in Processes |-> IdleStore]
    /\ user_sessions = EmptyDict
    /\ store_log = NoStores

\* time passes, also while a handler runs
a_tick ==
    \E d \in Deltas :
        /\ now + d \in Times
        /\ now' = now + d
        /\ UNCHANGED <<cacheVars, histVars, threadVars, appVars>>

\* the request arrives: the file name is checked, then await file.read()
\* (limit bounds the uploads begun)
u_begin(r, limit) ==
    /\ up[r].pc = "idle"
    /\ uploads < limit
    /\ uploads' = uploads + 1
    /\ \E input \in UploadInputs :
           LET u == [IdleUpload EXCEPT !.filename = input.filename,
                                       !.content = input.content]
           IN  IF ~EndsWithIfc(input.filename)
               THEN Fail(r, u, "HTTPException")
               ELSE /\ up' = [up EXCEPT ![r] = [u EXCEPT !.pc = "reading"]]
                    /\ resp' = [resp EXCEPT ![r] = NoResponse]
    /\ UNCHANGED <<now, returned, storeVars, cacheVars, histVars, threadVars, loop, building_data_store,
                   env, qa, db_rows>>

u_request(r) == u_begin(r, MaxUploads)

\* a handler that could be resumed while another is past its look-up
LoopFree_always == TRUE

\* The event loop resumes a coroutine only when the one it was running has
\* returned or reached an await; upload_ifc_file has none after file.read().
LoopFree == loop = NoRequest

\* the size check, the hash and the look-up in the file cache
u_lookup(r) ==
    /\ up[r].pc = "reading"
    /\ LoopFree
    /\ LET u == up[r]
           file_hash == get_file_hash(u.content)
           g == GetCachedFileData(file_cache, file_hash, now)
       IN  IF FileSize(u.content) > MAX_FILE_SIZE
           THEN /\ Fail(r, u, "HTTPException")
                /\ UNCHANGED <<file_cache, loop>>
           ELSE /\ file_cache' = g.cache
                /\ IF TruthyData(g.ret)
                   THEN /\ resp' = [resp EXCEPT ![r] =
                                       Response(u, 200, TRUE, g.ret.some.building_data,
                                                g.ret.some.analysis, None)]
                        /\ up' = [up EXCEPT ![r] = IdleUpload]
                        /\ UNCHANGED loop
                   ELSE /\ up' = [up EXCEPT ![r] =
                                     [u EXCEPT !.pc = "parse", !.file_hash = file_hash]]
                        /\ loop' = r
                        /\ UNCHANGED resp
    /\ UNCHANGED <<now, returned, storeVars, analysis_cache, histVars, threadVars, building_data_store,
                   uploads, env, qa, db_rows>>

\* parser.load_file and parser.extract_full_data
u_parse(r) ==
    /\ up[r].pc = "parse"
    /\ LET u == [up[r] EXCEPT !.parsed = TRUE] IN
       IF ~Parses(u.content)
       THEN /\ Fail(r, u, "Exception")
            /\ loop' = NoRequest
       ELSE /\ up' = [up EXCEPT ![r] =
                         [u EXCEPT !.pc = "analyze",
                                   !.building_data =
                                       ExtractFullData(u.content, u.filename)]]
            /\ UNCHANGED <<resp, loop>>
    /\ UNCHANGED <<now, returned, storeVars, cacheVars, histVars, threadVars, building_data_store,
                   uploads, env, qa, db_rows>>

\* ClaudeService(), then analyze_building up to the look-up in the
\* analysis cache
u_analyze(r) ==
    /\ up[r].pc = "analyze"
    /\ LET u == up[r]
           data_signature == get_data_signature(u.building_data)
           g == GetCachedAnalysis(analysis_cache, data_signature, now)
       IN  IF ~env.api_key
           THEN /\ Fail(r, u, "ValueError")
                /\ loop' = NoRequest
                /\ UNCHANGED analysis_cache
           ELSE /\ analysis_cache' = g.cache
                /\ up' = [up EXCEPT ![r] =
                             IF TruthyText(g.ret)
                             THEN [u EXCEPT !.pc = "cache_file",
                                            !.data_signature = data_signature,
                                            !.analysis = g.ret.some]
                             ELSE [u EXCEPT !.pc = "llm",
                                            !.data_signature = data_signature]]
                /\ UNCHANGED <<resp, loop>>
    /\ UNCHANGED <<now, returned, storeVars, file_cache, histVars, threadVars, building_data_store,
                   uploads, env, qa, db_rows>>

\* analyze_building: the call to the model; its text is cached and
\* returned, or its exception is turned into the returned message
u_llm(r) ==
    /\ up[r].pc = "llm"
    /\ \E outcome \in LlmOutcomes :
           LET u == [up[r] EXCEPT !.llm = TRUE] IN
           IF outcome.ok
           THEN /\ analysis_cache' =
                       CacheAnalysis(analysis_cache, u.data_signature, outcome.text, now)
                /\ up' = [up EXCEPT ![r] =
                             [u EXCEPT !.pc = "cache_file", !.analysis = outcome.text]]
           ELSE /\ UNCHANGED analysis_cache
                /\ up' = [up EXCEPT ![r] =
                             [u EXCEPT !.pc = "cache_file", !.analysis = ErrorText]]
    /\ UNCHANGED <<now, returned, storeVars, file_cache, histVars, threadVars, loop, building_data_store,
                   resp, uploads, env, qa, db_rows>>

\* an entry that keeps the record and drops the text
FileResult_record(building_data, analysis) ==
    [building_data |-> building_data, analysis |-> NoText]

\* What upload_ifc_file hands to cache_file_data.
FileResult(building_data, analysis) ==
    [building_data |-> building_data, analysis |-> analysis]

\* cache_service.cache_file_data(file_hash, {...})
u_cache_file(r) ==
    /\ up[r].pc = "cache_file"
    /\ LET u == up[r] IN
       /\ file_cache' = CacheFileData(file_cache, u.file_hash,
                                      FileResult(u.building_data, u.analysis), now)
       /\ up' = [up EXCEPT ![r] = [u EXCEPT !.pc = "store"]]
    /\ UNCHANGED <<now, returned, storeVars, analysis_cache, histVars, threadVars, loop,
                   building_data_store, resp, uploads, env, qa, db_rows>>

\* What the database store does: it inserts the row and returns its id, it
\* returns None (its own except branch), or it raises; "skipped" when there
\* is no supabase_service.
StoreOutcomes ==
    IF env.supabase THEN {"stored", "none", "raised"} ELSE {"skipped"}

\* a handler that takes a store that returned None for a failure
StoreCaught_none(outcome) == outcome # "none"

\* a handler whose try around the store lets the exception through
StoreCaught_not(outcome) == outcome # "raised"

\* except Exception as db_error: whatever the store raises is caught
StoreCaught(outcome) == TRUE

\* store_analysis_result, the session store, and the response
u_store(r) ==
    /\ up[r].pc = "store"
    /\ LET u == up[r] IN
       \E outcome \in StoreOutcomes :
           LET stored == outcome = "stored"
               analysis_id == IF stored THEN Some(db_rows + 1) ELSE None
           IN  IF ~StoreCaught(outcome)
               THEN /\ Fail(r, u, "Exception")
                    /\ UNCHANGED <<db_rows, building_data_store, returned>>
               ELSE /\ db_rows' = IF stored THEN db_rows + 1 ELSE db_rows
                    /\ building_data_store' =
                           [current |-> u.building_data,
                            current_analysis_id |-> analysis_id]
                    /\ resp' = [resp EXCEPT ![r] =
                                   Response(u, 200, FALSE, u.building_data,
                                            u.analysis, analysis_id)]
                    /\ returned' = DictSet(returned, u.file_hash,
                                           Body(resp'[r]))
                    /\ up' = [up EXCEPT ![r] = IdleUpload]
    /\ loop' = NoRequest
    /\ UNCHANGED <<now, cacheVars, histVars, threadVars, uploads, env, qa, storeVars>>

\* The questions answered, all together.
MaxAsks == 2

\* What a client asks: the question and, optionally, the id of an analysis.
Questions == {"q1", "", "  "}

RequestIds == {None, Some(1)}

\* a test without strip(): only the empty question is blank
IsBlank_empty(question) == question = ""

\* not request.question or request.question.strip() == ""
IsBlank(question) == question \in {"", "  "}

\* What the model call of ask_question does: it returns a text, or it
\* raises.
AnswerOutcomes ==
    { [ok |-> TRUE, text |-> "ans1"], [ok |-> FALSE, text |-> NoText] }

\* ClaudeService.ask_question's except branch: the message it returns in
\* place of an answer
AnswerErrorText == "Error: please check API key"

\* request.analysis_id or building_data_store.get("current_analysis_id")
Either(a, b) == IF a # None THEN a ELSE b

\* raise HTTPException(status_code=400, ...), re-raised as it is
Reject(q, detail) ==
    [q EXCEPT !.status = 400, !.detail = detail, !.about = None,
              !.answer = NoText]

\* a service that answers a question it has answered before from memory
CallsAfter_memo(q, question, about) ==
    IF <<question, about>> \in q.asked THEN q.llm_calls ELSE q.llm_calls + 1

\* ClaudeService.ask_question: one chat.completions.create per call
CallsAfter(q, question, about) == q.llm_calls + 1

\* ask_question: the whole handler; it has no await
q_ask ==
    /\ LoopFree
    /\ qa.llm_calls < MaxAsks
    /\ \E question \in Questions, request_id \in RequestIds :
           LET q == qa IN
           IF "current" \notin DOMAIN building_data_store
           THEN qa' = Reject(q, "upload first")
           ELSE IF IsBlank(question)
           THEN qa' = Reject(q, "empty question")
           ELSE IF ~env.api_key
           THEN qa' = Reject(q, "no api key")
           ELSE \E outcome \in AnswerOutcomes, store \in StoreOutcomes :
                    LET about == building_data_store["current"]
                        analysis_id ==
                            Either(request_id,
                                   building_data_store["current_analysis_id"])
                    IN  qa' = [q EXCEPT
                                 !.status = 200,
                                 !.detail = "success",
                                 !.about = about,
                                 !.answer = IF outcome.ok THEN outcome.text
                                            ELSE AnswerErrorText,
                                 !.llm_calls = CallsAfter(qa, question, about),
                                 !.rows = IF analysis_id # None /\ store = "stored"
                                          THEN @ + 1 ELSE @,
                                 !.asked = @ \cup {<<question, about>>}]
    /\ UNCHANGED <<now, returned, storeVars, cacheVars, histVars, threadVars, up, loop,
                   building_data_store, resp, uploads, env, db_rows>>

AppNext ==
    \/ a_tick
    \/ \E r \in Requests : u_request(r)
    \/ \E r \in Requests : u_lookup(r)
    \/ \E r \in Requests : u_parse(r)
    \/ \E r \in Requests : u_analyze(r)
    \/ \E r \in Requests : u_llm(r)
    \/ \E r \in Requests : u_cache_file(r)
    \/ \E r \in Requests : u_store(r)

SpecApp == AppInit /\ [][AppNext]_vars

\* The client that uploads and asks: one upload at a time, and questions in
\* between.  ask_question reads no clock, and here the clock stands still.
Client == "r1"

\* The uploads the client makes, all together: enough to upload one file,
\* another, and the first again.
MaxClientUploads == 3

AskNext ==
    \/ q_ask
    \/ u_begin(Client, MaxClientUploads)
    \/ u_lookup(Client)
    \/ u_parse(Client)
    \/ u_analyze(Client)
    \/ u_llm(Client)
    \/ u_cache_file(Client)
    \/ u_store(Client)

SpecAsk == AppInit /\ [][AskNext]_vars

(***************************************************************************)
(* SupabaseService.store_analysis_result, called by server processes that  *)
(* share the database.  Each request to the database is one step; between  *)
(* two requests of one process the other process may make its own.         *)
(***************************************************************************)

\* What a request to the database does: it is carried out, or it raises.
DbOutcomes == {"ok", "raises"}

\* What the insert of a session row does when the user has a row by now:
\* it adds a second row, or the table refuses it and it raises.
ConflictOutcomes == {"added", "raises"}

StoreGoto(p, label) == st' = [st EXCEPT ![p].pc = label]

\* return analysis_id
ReturnId(p, failed) ==
    /\ st' = [st EXCEPT ![p] = IdleStore]
    /\ store_log' =
           [store_log EXCEPT !.returned[st[p].user_id] = @ + 1,
                             !.failures = IF failed THEN @ + 1 ELSE @]

\* "total_analyses": current_count + 1
NewCount(rows, current_count) == current_count + 1

\* store_analysis_result is called
s_begin(p) ==
    /\ st[p].pc = "idle"
    /\ store_log.begun < MaxStores
    /\ \E user_id \in Users :
           st' = [st EXCEPT ![p] = [IdleStore EXCEPT !.pc = "insert",
                                                     !.user_id = user_id]]
    /\ store_log' = [store_log EXCEPT !.begun = @ + 1]
    /\ UNCHANGED <<now, cacheVars, histVars, threadVars, up, loop,
                   building_data_store, resp, uploads, env, db_rows, qa, returned,
                   user_sessions>>

\* table("analysis_results").insert(data); when it raises, the call
\* returns None
s_insert(p) ==
    /\ st[p].pc = "insert"
    /\ \E outcome \in DbOutcomes :
           IF outcome = "ok"
           THEN /\ db_rows' = db_rows + 1
                /\ StoreGoto(p, "select")
           ELSE /\ st' = [st EXCEPT ![p] = IdleStore]
                /\ UNCHANGED db_rows
    /\ UNCHANGED <<now, cacheVars, histVars, threadVars, up, loop,
                   building_data_store, resp, uploads, env, qa, returned,
                   user_sessions, store_log>>

\* _update_user_session: the select of the user's session
s_select(p) ==
    /\ st[p].pc = "select"
    /\ \E outcome \in DbOutcomes :
           LET user_id == st[p].user_id IN
           IF outcome = "ok"
           THEN /\ st' = [st EXCEPT
                            ![p].pc = "write",
                            ![p].found = user_id \in DOMAIN user_sessions,
                            ![p].current_count =
                                IF user_id \in DOMAIN user_sessions
                                THEN user_sessions[user_id][1] ELSE 0]
                /\ UNCHANGED store_log
           ELSE ReturnId(p, TRUE)
    /\ UNCHANGED <<now, cacheVars, histVars, threadVars, up, loop,
                   building_data_store, resp, uploads, env, db_rows, qa, returned,
                   user_sessions>>

\* _update_user_session: the update of the rows of the user, or the insert
\* of a first row; then store_analysis_result returns the id
s_write(p) ==
    /\ st[p].pc = "write"
    /\ LET user_id == st[p].user_id IN
       \E outcome \in DbOutcomes, conflict \in ConflictOutcomes :
           IF outcome = "raises"
           THEN /\ UNCHANGED user_sessions
                /\ ReturnId(p, TRUE)
           ELSE IF st[p].found
           THEN /\ user_sessions' =
                       [user_sessions EXCEPT ![user_id] =
                           [i \in DOMAIN @ |-> NewCount(@, st[p].current_count)]]
                /\ ReturnId(p, FALSE)
           ELSE IF user_id \notin DOMAIN user_sessions
           THEN /\ user_sessions' = DictSet(user_sessions, user_id, <<1>>)
                /\ ReturnId(p, FALSE)
           ELSE IF conflict = "added"
           THEN /\ user_sessions' =
                       [user_sessions EXCEPT ![user_id] = Append(@, 1)]
                /\ ReturnId(p, FALSE)
           ELSE /\ UNCHANGED user_sessions
                /\ ReturnId(p, TRUE)
    /\ UNCHANGED <<now, cacheVars, histVars, threadVars, up, loop,
                   building_data_store, resp, uploads, env, db_rows, qa, returned>>

StoreNext ==
    \/ \E p \in Processes : s_begin(p)
    \/ \E p \in Processes : s_insert(p)
    \/ \E p \in Processes : s_select(p)
    \/ \E p \in Processes : s_write(p)

SpecStore == Init /\ [][StoreNext]_vars

(***************************************************************************)
(* Properties of the cache under Spec                                      *)
(***************************************************************************)

\* d2 is d1 with key k taken out and every other entry as it was.
RemovedExactly(d1, d2, k) ==
    /\ DOMAIN d2 = (DOMAIN d1) \ {k}
    /\ \A x \in DOMAIN d2 : d2[x] = d1[x]

\* C1: freshness window.  In either namespace, a get on a key whose latest
\* put happened at t0 (and was not overwritten, cleared or swept since)
\* returns the value put when the query time is at most t0 + TTL, and
\* returns None when the query time is later than t0 + TTL.
C1_FreshnessWindow ==
    /\ (last.op = "get_cached_file_data" /\ last.key \in DOMAIN file_puts) =>
           LET p == file_puts[last.key] IN
           IF now <= p.t0 + ttl_seconds
           THEN last.ret = Some(p.value)
           ELSE last.ret = None
    /\ (last.op = "get_cached_analysis" /\ last.key \in DOMAIN analysis_puts) =>
           LET p == analysis_puts[last.key] IN
           IF now <= p.t0 + ttl_seconds
           THEN last.ret = Some(p.value)
           ELSE last.ret = None

\* A get at exactly t0 + TTL that returned the value put at t0.
C1_Witness ==
    /\ last.op = "get_cached_file_data"
    /\ last.key \in DOMAIN file_puts
    /\ now = file_puts[last.key].t0 + ttl_seconds
    /\ last.ret = Some(file_puts[last.key].value)

\* C2: lazy expiration.  A get on a key whose entry is resident but older
\* than the TTL removes exactly that entry from its own namespace and
\* returns None; a get on an absent or fresh key changes no entry in either
\* namespace.
C2_LazyExpiration ==
    [][ /\ last'.op = "get_cached_file_data" =>
               /\ analysis_cache' = analysis_cache
               /\ IF KeyStatus(file_cache, last'.key, now) = "stale"
                  THEN /\ RemovedExactly(file_cache, file_cache', last'.key)
                       /\ last'.ret = None
                  ELSE file_cache' = file_cache
        /\ last'.op = "get_cached_analysis" =>
               /\ file_cache' = file_cache
               /\ IF KeyStatus(analysis_cache, last'.key, now) = "stale"
                  THEN /\ RemovedExactly(analysis_cache, analysis_cache', last'.key)
                       /\ last'.ret = None
                  ELSE analysis_cache' = analysis_cache
      ]_vars

\* A get that found its key stale and removed it while the other key of the
\* namespace stayed resident.
C2_Witness ==
    /\ last.op = "get_cached_analysis"
    /\ last.was = "stale"
    /\ last.removed = Removed(0, 1)
    /\ last.ret = None
    /\ DictLen(analysis_cache) = 1

\* C3: a put leaves exactly one entry under its key, holding the new value
\* and the time of the put; the namespace grows by one when the key was
\* absent and by zero when it was resident (fresh or stale); no other key's
\* entry changes.
C3_PutOverwrites ==
    [][ /\ last'.op = "cache_file_data" =>
               LET k == last'.key IN
               /\ DOMAIN file_cache' = (DOMAIN file_cache) \cup {k}
               /\ file_cache'[k].data = last'.arg.some
               /\ file_cache'[k].timestamp = now
               /\ \A x \in (DOMAIN file_cache) \ {k} : file_cache'[x] = file_cache[x]
               /\ DictLen(file_cache') =
                      DictLen(file_cache) + (IF k \in DOMAIN file_cache THEN 0 ELSE 1)
        /\ last'.op = "cache_analysis" =>
               LET k == last'.key IN
               /\ DOMAIN analysis_cache' = (DOMAIN analysis_cache) \cup {k}
               /\ analysis_cache'[k].analysis = last'.arg.some
               /\ analysis_cache'[k].timestamp = now
               /\ \A x \in (DOMAIN analysis_cache) \ {k} :
                      analysis_cache'[x] = analysis_cache[x]
               /\ DictLen(analysis_cache') =
                      DictLen(analysis_cache)
                          + (IF k \in DOMAIN analysis_cache THEN 0 ELSE 1)
      ]_vars

\* A put over a stale resident entry, next to another resident key.
C3_Witness ==
    /\ last.op = "cache_file_data"
    /\ last.was = "stale"
    /\ DictLen(file_cache) = 2
    /\ file_cache[last.key].data = last.arg.some
    /\ file_cache[last.key].timestamp = now

\* C4: namespace independence.  A put, a get (its lazy removal included) or
\* a size query on one namespace leaves the other namespace as it was, and
\* what a sweep does to one namespace does not reach into the other: an
\* entry that is not itself expired survives the sweep unchanged, whatever
\* the other namespace holds under the same key.
C4_NamespaceIndependence ==
    [][ /\ last'.op \in {"cache_file_data", "get_cached_file_data", "get_cache_stats"}
               => analysis_cache' = analysis_cache
        /\ last'.op \in {"cache_analysis", "get_cached_analysis", "get_cache_stats"}
               => file_cache' = file_cache
        /\ last'.op = "cleanup_expired" =>
               /\ \A k \in DOMAIN analysis_cache :
                      KeyStatus(analysis_cache, k, now) = "fresh" =>
                          /\ k \in DOMAIN analysis_cache'
                          /\ analysis_cache'[k] = analysis_cache[k]
               /\ \A k \in DOMAIN file_cache :
                      KeyStatus(file_cache, k, now) = "fresh" =>
                          /\ k \in DOMAIN file_cache'
                          /\ file_cache'[k] = file_cache[k]
      ]_vars

\* A sweep that removed a file entry while the analysis namespace, holding
\* an entry under every key, lost nothing.
C4_Witness ==
    /\ last.op = "cleanup_expired"
    /\ last.removed = Removed(1, 0)
    /\ DOMAIN analysis_cache = Keys

\* C5: cleanup_expired at time now removes from both namespaces every entry
\* with now - timestamp > TTL and keeps, unchanged, every entry with
\* now - timestamp <= TTL; no get is needed beforehand.
C5_SweepExpired ==
    [][ last'.op = "cleanup_expired" =>
            /\ DOMAIN file_cache' =
                   {k \in DOMAIN file_cache : now - file_cache[k].timestamp <= ttl_seconds}
            /\ \A k \in DOMAIN file_cache' : file_cache'[k] = file_cache[k]
            /\ DOMAIN analysis_cache' =
                   {k \in DOMAIN analysis_cache :
                        now - analysis_cache[k].timestamp <= ttl_seconds}
            /\ \A k \in DOMAIN analysis_cache' : analysis_cache'[k] = analysis_cache[k]
      ]_vars

\* A sweep that removed one entry of each namespace and kept one of each.
C5_Witness ==
    /\ last.op = "cleanup_expired"
    /\ last.removed = Removed(1, 1)
    /\ DictLen(file_cache) = 1
    /\ DictLen(analysis_cache) = 1

\* C6: from a clear_cache until the next put both namespaces are empty,
\* get_cache_stats counts 0 and 0, and every get returns None.
C6_ClearEmptiesBoth ==
    /\ last.op = "clear_cache" => cleared
    /\ cleared =>
           /\ file_cache = EmptyDict
           /\ analysis_cache = EmptyDict
           /\ GetCacheStats(file_cache, analysis_cache).file_cache_size = 0
           /\ GetCacheStats(file_cache, analysis_cache).analysis_cache_size = 0
           /\ last.op = "get_cache_stats" =>
                  /\ last.ret.some.file_cache_size = 0
                  /\ last.ret.some.analysis_cache_size = 0
           /\ last.op \in {"get_cached_file_data", "get_cached_analysis"} =>
                  last.ret = None

\* A clear_cache that deleted two entries of each namespace.
C6_Witness ==
    /\ last.op = "clear_cache"
    /\ last.removed = Removed(2, 2)
    /\ cleared

\* C18: stats is a read-only snapshot.  get_cache_stats leaves every entry
\* of both namespaces as it is and reports, for each, the number of resident
\* entries, stale ones included, with the TTL in hours given at construction.
C18_StatsReadOnly ==
    [][ (last'.op = "get_cache_stats" /\ now' = now) =>
            /\ UNCHANGED cacheVars
            /\ last'.ret =
                   Some([file_cache_size |-> Cardinality(DOMAIN file_cache),
                         analysis_cache_size |-> Cardinality(DOMAIN analysis_cache),
                         ttl_hours |-> ttl_hours])
      ]_vars

\* Stats were taken while the one file entry was stale and the one analysis
\* entry fresh: both were counted, and the stale entry is still resident.
C18_Witness ==
    /\ last.op = "get_cache_stats"
    /\ last.ret = Some([file_cache_size |-> 1, analysis_cache_size |-> 1,
                        ttl_hours |-> 24])
    /\ \E k \in Keys : KeyStatus(file_cache, k, now) = "stale"
    /\ \E k \in Keys : KeyStatus(analysis_cache, k, now) = "fresh"

\* The keys of a dict whose TTL has elapsed.
StaleKeys(cache) == {k \in DOMAIN cache : KeyStatus(cache, k, now) = "stale"}

\* From the state as it is, a get on stale key k (leaving dict g) and a
\* sweep (leaving dict sw) both remove k and leave dicts of the same size.
SameSizeAfter(g, sw, k) ==
    /\ k \notin DOMAIN g
    /\ k \notin DOMAIN sw
    /\ DictLen(g) = DictLen(sw)

\* C19 as stated: lazy and active expiration agree.  From any state in
\* which an entry's TTL has elapsed, a get on its key and a sweep each
\* remove it, and the size of the namespace after either is the same.
C19_SameSizeEitherPath ==
    /\ \A k \in StaleKeys(file_cache) :
           SameSizeAfter(GetCachedFileData(file_cache, k, now).cache,
                         CleanupFiles(file_cache, now), k)
    /\ \A k \in StaleKeys(analysis_cache) :
           SameSizeAfter(GetCachedAnalysis(analysis_cache, k, now).cache,
                         CleanupAnalyses(file_cache, analysis_cache, now), k)

\* A get on stale key k (leaving g) and a sweep (leaving sw) both remove k;
\* the get removes nothing else, the sweep removes every stale entry, the
\* entries the sweep keeps are the same in both, and the sizes are equal
\* exactly when k was the only stale entry of the namespace.
AgreeOn(cache, g, sw, k) ==
    /\ k \notin DOMAIN g
    /\ k \notin DOMAIN sw
    /\ DOMAIN g = DOMAIN cache \ {k}
    /\ DOMAIN sw = DOMAIN cache \ StaleKeys(cache)
    /\ \A x \in DOMAIN sw : sw[x] = g[x] /\ sw[x] = cache[x]
    /\ DictLen(sw) = DictLen(g) - Cardinality(StaleKeys(cache) \ {k})
    /\ (DictLen(g) = DictLen(sw) <=> StaleKeys(cache) = {k})

\* C19 as the code has it.
C19_LazyAndActiveAgree ==
    /\ \A k \in StaleKeys(file_cache) :
           AgreeOn(file_cache, GetCachedFileData(file_cache, k, now).cache,
                   CleanupFiles(file_cache, now), k)
    /\ \A k \in StaleKeys(analysis_cache) :
           AgreeOn(analysis_cache, GetCachedAnalysis(analysis_cache, k, now).cache,
                   CleanupAnalyses(file_cache, analysis_cache, now), k)

\* Both file entries are stale: a get on k1 leaves one entry, a sweep none.
C19_Witness ==
    /\ StaleKeys(file_cache) = Keys
    /\ DictLen(GetCachedFileData(file_cache, "k1", now).cache) = 1
    /\ DictLen(CleanupFiles(file_cache, now)) = 0

\* C20: idempotent clear.  A clear_cache called right after a clear_cache
\* deletes no entry from either namespace and leaves the cache as the first
\* call left it: both namespaces empty.
C20_ClearIdempotent ==
    (last.op = "clear_cache" /\ last.was \in {"cleared", "cleared nothing"}) =>
        /\ last.removed = Removed(0, 0)
        /\ file_cache = EmptyDict
        /\ analysis_cache = EmptyDict
        /\ GetCacheStats(file_cache, analysis_cache).file_cache_size = 0
        /\ GetCacheStats(file_cache, analysis_cache).analysis_cache_size = 0

\* The second of two clear_cache calls in succession, the first of which
\* deleted entries.
C20_Witness ==
    /\ last.op = "clear_cache"
    /\ last.was = "cleared"
    /\ last.removed = Removed(0, 0)
    /\ DictLen(file_cache) = 0
    /\ DictLen(analysis_cache) = 0

\* C21: the bulk removals report what they removed.  clear_cache and
\* cleanup_expired each return the pair of the numbers of entries the call
\* deleted from the file namespace and from the analysis namespace.
C21_RemovalsReported ==
    last.op \in {"clear_cache", "cleanup_expired"} =>
        last.ret = Some(last.removed)

\* The times at which an entry put at t over one of an earlier time t_old
\* is read: at once, just after the window of the old entry has closed, and
\* at the end of its own window.
ReadTimes(t_old, t) ==
    {t, t + ttl_seconds} \cup (IF t_old < t THEN {t_old + ttl_seconds + 1} ELSE {})

\* C24: re-insertion restarts the freshness window.  A put under a key that
\* has an entry, fresh or stale, replaces the value and the time together:
\* the entry holds the new value and the time of the put, a get returns the
\* new value up to a full TTL after this put, also when the TTL of the
\* entry it replaced has run out, and returns None after that.
C24_ReinsertionRestartsWindow ==
    [][ /\ (last'.op = "cache_file_data" /\ last'.key \in DOMAIN file_cache) =>
               LET k == last'.key
                   t_old == file_cache[k].timestamp
               IN  /\ file_cache'[k] = FileItem(last'.arg.some, now)
                   /\ \A t \in ReadTimes(t_old, now) :
                          GetCachedFileData(file_cache', k, t).ret = Some(last'.arg.some)
                   /\ GetCachedFileData(file_cache', k, now + ttl_seconds + 1).ret = None
        /\ (last'.op = "cache_analysis" /\ last'.key \in DOMAIN analysis_cache) =>
               LET k == last'.key
                   t_old == analysis_cache[k].timestamp
               IN  /\ analysis_cache'[k] = AnalysisItem(last'.arg.some, now)
                   /\ \A t \in ReadTimes(t_old, now) :
                          GetCachedAnalysis(analysis_cache', k, t).ret
                              = Some(last'.arg.some)
                   /\ GetCachedAnalysis(analysis_cache', k, now + ttl_seconds + 1).ret
                          = None
      ]_vars

\* A text put over a stale resident entry, and readable again: a get at
\* this time returns it.
C24_Witness ==
    /\ last.op = "cache_analysis"
    /\ last.was = "stale"
    /\ analysis_cache[last.key].timestamp = now
    /\ now > ttl_seconds
    /\ GetCachedAnalysis(analysis_cache, last.key, now).ret = Some(last.arg.some)

(***************************************************************************)
(* Properties of the cache under SpecThreads                               *)
(***************************************************************************)

CacheOfNext(ns) == IF ns = "file" THEN file_cache' ELSE analysis_cache'

\* The step is one of thread t.
StepOf(t) == pc'[t] # pc[t] \/ frame'[t] # frame[t]

\* C8: no statement of a CacheService method ever raises, whatever the
\* other threads do between its statements.
C8_NeverRaises == \A t \in Threads : pc[t] # "raised"

\* C9: a deletion made by cleanup_expired never takes out an entry that is
\* fresh at the moment it is deleted.
C9_SweepKeepsFresh ==
    [][ \A t \in Threads :
            (pc[t] = "sweep_del" /\ StepOf(t)) =>
                \A ns \in Namespaces : \A k \in DOMAIN CacheOf(ns) :
                    k \notin DOMAIN CacheOfNext(ns) =>
                        KeyStatus(CacheOf(ns), k, now) # "fresh"
      ]_vars

\* C10: as long as no clear, no sweep and no lazy removal has run, each
\* namespace holds exactly the keys of the puts completed so far, one entry
\* per key, and the entry's value is one that a completed put gave to that
\* key (the caller's own value when the key was put once).
C10_NoLostUpdates ==
    ~disturbed =>
        \A ns \in Namespaces :
            /\ DOMAIN CacheOf(ns) = DOMAIN put_done[ns]
            /\ DictLen(CacheOf(ns)) = Cardinality(DOMAIN put_done[ns])
            /\ \A k \in DOMAIN put_done[ns] :
                   ItemValue(ns, CacheOf(ns)[k]) \in
                       {ItemValue(ns, item) : item \in put_done[ns][k]}

\* Two threads have each put their own value under a key of its own in the
\* file namespace while a third put is under way.
C10_Witness ==
    /\ ~disturbed
    /\ DOMAIN put_done["file"] = Keys
    /\ {item.data : item \in put_done["file"]["k1"]} = {ThreadValue("t1", "file")}
    /\ {item.data : item \in put_done["file"]["k2"]} = {ThreadValue("t2", "file")}
    /\ DictLen(file_cache) = 2
    /\ \E t \in Threads : pc[t] = "put_store"

\* C11: last write wins.  Every store of a put leaves under its key exactly
\* the item that put built, value and timestamp together, whatever was
\* there, and leaves every other key as it was; and every resident entry is,
\* whole, an item that some completed put stored under that key.
C11_LastWriteWins ==
    [][ \A t \in Threads :
            (pc[t] = "put_store" /\ StepOf(t)) =>
                LET f == frame[t] IN
                /\ f.key \in DOMAIN CacheOfNext(f.ns)
                /\ CacheOfNext(f.ns)[f.key] = f.item
                /\ f.item = NewItem(f.ns, ThreadValue(t, f.ns), f.item.timestamp)
                /\ DOMAIN CacheOfNext(f.ns) = DOMAIN CacheOf(f.ns) \cup {f.key}
                /\ \A k \in DOMAIN CacheOf(f.ns) \ {f.key} :
                       CacheOfNext(f.ns)[k] = CacheOf(f.ns)[k]
                /\ (~disturbed =>
                       \A ns \in Namespaces : \A k \in DOMAIN CacheOfNext(ns) :
                           CacheOfNext(ns)[k] \in put_done'[ns][k])
      ]_vars

\* Two puts raced for k1 while it was absent: t1 built its item at time 0,
\* t2 built its own after the TTL had gone by and stored it, and t1 stored
\* last.  The entry is t1's item, whole.
C11_Witness ==
    /\ ~disturbed
    /\ calls = 2
    /\ \A t \in Threads : pc[t] = "idle"
    /\ "k1" \in DOMAIN put_done["file"]
    /\ "k1" \in DOMAIN file_cache
    /\ put_done["file"]["k1"] =
           { FileItem(ThreadValue("t1", "file"), 0),
             FileItem(ThreadValue("t2", "file"), ttl_seconds) }
    /\ file_cache["k1"] = FileItem(ThreadValue("t1", "file"), 0)

(***************************************************************************)
(* Properties of the application under SpecApp                             *)
(***************************************************************************)

\* C7: no negative caching.  When the parse or the model call of an upload
\* fails, nothing derived from the failure is stored in either namespace:
\* no entry holds the message that stands for a failed analysis, and no
\* upload is answered from the cache with that message.
C7_NoNegativeCaching ==
    /\ \A k \in DOMAIN file_cache : file_cache[k].data.analysis # ErrorText
    /\ \A k \in DOMAIN analysis_cache : analysis_cache[k].analysis # ErrorText
    /\ \A r \in Requests :
           resp[r].status = 200 /\ resp[r].cached => resp[r].analysis # ErrorText

\* The part of C7 that the code keeps: a failed parse leaves both
\* namespaces as they were, so the identical bytes miss again.
C7_ParseFailureMisses ==
    \A r \in Requests :
        resp[r].content = "bad" /\ resp[r].status # 0 =>
            /\ get_file_hash("bad") \notin DOMAIN file_cache
            /\ ~resp[r].cached

\* The steps of the handler after a miss in the file cache.
Computing == {"parse", "analyze", "llm", "cache_file", "store"}

\* C12 as stated: no single flight.  While one request that missed the
\* file cache is computing, another request carrying the same bytes that
\* has read its body can go on to its own look-up (and miss as well).
C12_AdmitsConcurrentMiss ==
    \A r1, r2 \in Requests :
        (/\ r1 # r2
         /\ up[r1].pc \in Computing
         /\ up[r2].pc = "reading"
         /\ up[r2].content = up[r1].content) => ENABLED u_lookup(r2)

\* C12 as the code has it: the handler does not yield between its look-up
\* and its return, so at most one request at a time is past a miss; no two
\* requests compute at once, for the same bytes or for different ones.
C12_OneComputationAtATime ==
    \A r1, r2 \in Requests :
        (up[r1].pc \in Computing /\ up[r2].pc \in Computing) =>
            (r1 = r2 /\ loop = r1)

\* Two uploads of the same bytes are in flight: one missed and has called
\* the model, the other has read its body and waits for the loop.
C12_Witness ==
    /\ up["r1"].pc = "cache_file"
    /\ up["r1"].llm
    /\ up["r2"].pc = "reading"
    /\ up["r2"].content = up["r1"].content
    /\ get_file_hash(up["r2"].content) \notin DOMAIN file_cache

\* Request r takes a step.
UploadStep(r) == up'[r] # up[r] \/ resp'[r] # resp[r]

\* Request r is about to look up bytes of allowed size whose hash has a
\* fresh entry in the file cache.
FileHit(r) ==
    /\ up[r].pc = "reading"
    /\ FileSize(up[r].content) <= MAX_FILE_SIZE
    /\ KeyStatus(file_cache, get_file_hash(up[r].content), now) = "fresh"

\* C13: on a hit in the file cache the handler answers at once with the
\* stored record and the stored analysis; it runs neither the parser nor
\* the model call nor the database store, and writes to neither cache.
C13_FileHitReturnsImmediately ==
    [][ \A r \in Requests :
            (FileHit(r) /\ UploadStep(r)) =>
                LET stored == file_cache[get_file_hash(up[r].content)].data IN
                /\ up'[r].pc = "idle"
                /\ resp'[r].status = 200
                /\ resp'[r].cached
                /\ resp'[r].building_data = stored.building_data
                /\ resp'[r].analysis = stored.analysis
                /\ resp'[r].analysis_id = None
                /\ ~resp'[r].parsed
                /\ ~resp'[r].llm
                /\ UNCHANGED <<cacheVars, db_rows, building_data_store, loop>>
      ]_vars

\* The second upload of the same bytes was answered from the cache: one row
\* was stored, by the first upload, and the parser and the model ran once.
C13_Witness ==
    /\ resp["r1"].status = 200 /\ ~resp["r1"].cached /\ resp["r1"].llm
    /\ resp["r1"].analysis_id = Some(1)
    /\ resp["r2"].status = 200 /\ resp["r2"].cached
    /\ resp["r2"].content = resp["r1"].content
    /\ resp["r2"].analysis = resp["r1"].analysis
    /\ resp["r2"].building_data = resp["r1"].building_data
    /\ ~resp["r2"].parsed /\ ~resp["r2"].llm
    /\ db_rows = 1

\* Request r has put its result in the file cache after the parse and
\* after the put of its analysis text in the analysis cache: the text is
\* resident under the signature of its record, put no later than the file
\* entry.
PutInOrder(r) ==
    LET u == up[r] IN
    /\ u.parsed
    /\ u.file_hash \in DOMAIN file_cache
    /\ file_cache[u.file_hash].data = FileResult(u.building_data, u.analysis)
    /\ u.data_signature \in DOMAIN analysis_cache
    /\ analysis_cache[u.data_signature].analysis = u.analysis
    /\ analysis_cache[u.data_signature].timestamp
           <= file_cache[u.file_hash].timestamp

\* C14: miss-path ordering.  A request that missed the file cache puts
\* {record, analysis text} in the file cache only after the parse, the
\* model step and the put of that text in the analysis cache.
C14_MissPathOrdering ==
    \A r \in Requests : up[r].pc = "store" => PutInOrder(r)

\* The part of C14 that the code keeps: the order holds for every request
\* whose model step did not fail.
C14_OrderUnlessFailed ==
    \A r \in Requests :
        (up[r].pc = "store" /\ up[r].analysis # ErrorText) => PutInOrder(r)

\* Request r, past a miss in the file cache, is about to consult the
\* analysis cache, which holds a fresh entry under the signature of its
\* record.
AnalysisHit(r) ==
    /\ up[r].pc = "analyze"
    /\ env.api_key
    /\ KeyStatus(analysis_cache, get_data_signature(up[r].building_data), now)
           = "fresh"

\* Request r goes on to the put in the file cache with the stored text,
\* without a call to the model.
Reuses(r) ==
    /\ up'[r].pc = "cache_file"
    /\ ~up'[r].llm
    /\ up'[r].analysis =
           analysis_cache[get_data_signature(up[r].building_data)].analysis
    /\ UNCHANGED cacheVars

\* C15: analysis reuse across files.  When the analysis cache holds a fresh
\* entry under the signature of the parsed record, the model is not called
\* and the analysis the request carries on is exactly the stored text.
C15_AnalysisReuse ==
    [][ \A r \in Requests : (AnalysisHit(r) /\ UploadStep(r)) => Reuses(r) ]_vars

\* The part of C15 that the code keeps: a stored text that is not empty is
\* reused.
C15_NonEmptyReuse ==
    [][ \A r \in Requests :
            (/\ AnalysisHit(r)
             /\ UploadStep(r)
             /\ analysis_cache[get_data_signature(up[r].building_data)].analysis # "")
                => Reuses(r) ]_vars

\* C16: persistence is best-effort.  The step of the database store always
\* ends the request with a success response carrying its record and its
\* analysis, with an id only when the row was stored, and leaves in the
\* file cache the entry the request put before the attempt.
C16_PersistenceBestEffort ==
    [][ \A r \in Requests :
            (up[r].pc = "store" /\ UploadStep(r)) =>
                LET u == up[r] IN
                /\ resp'[r].status = 200
                /\ ~resp'[r].cached
                /\ resp'[r].building_data = u.building_data
                /\ resp'[r].analysis = u.analysis
                /\ resp'[r].analysis_id \in {None, Some(db_rows + 1)}
                /\ (resp'[r].analysis_id = None <=> db_rows' = db_rows)
                /\ u.file_hash \in DOMAIN file_cache'
                /\ file_cache'[u.file_hash].data =
                       FileResult(u.building_data, u.analysis)
                /\ UNCHANGED cacheVars
      ]_vars

\* With the database configured, an upload whose store failed was answered
\* with success and no id; no row exists, and the file entry is resident.
C16_Witness ==
    /\ env.supabase
    /\ db_rows = 0
    /\ resp["r1"].status = 200 /\ ~resp["r1"].cached
    /\ resp["r1"].analysis_id = None
    /\ resp["r1"].analysis = "a1"
    /\ resp["r1"].building_data # None
    /\ get_file_hash(resp["r1"].content) \in DOMAIN file_cache
    /\ file_cache[get_file_hash(resp["r1"].content)].data =
           FileResult(resp["r1"].building_data, resp["r1"].analysis)

(***************************************************************************)
(* Properties of question answering under SpecAsk                          *)
(***************************************************************************)

\* C17: question answering is never cached.  A step of ask_question leaves
\* both namespaces as they are, and every question it accepts makes one
\* more call to the model, asked before or not.
C17_QuestionsNeverCached ==
    [][ qa' # qa =>
            /\ UNCHANGED cacheVars
            /\ (qa'.status = 200 => qa'.llm_calls = qa.llm_calls + 1)
            /\ (qa'.status # 200 => qa'.llm_calls = qa.llm_calls)
      ]_vars

\* The same question has been answered twice about the same record, with
\* two calls to the model, while the caches hold the upload's entries.
C17_Witness ==
    /\ qa.status = 200
    /\ qa.llm_calls = 2
    /\ Cardinality(qa.asked) = 1
    /\ DictLen(file_cache) = 1
    /\ DictLen(analysis_cache) = 1

\* The questions that are empty or made of whitespace only.
BlankQuestions == {"", "  "}

\* C29: ask_question is rejected with status 400, without a call to the
\* model or to the database, whenever the session store holds no current
\* building data or the question is empty or whitespace only; the check for
\* the building comes first.  Without current building data every request
\* gets "upload first", whatever its question; no blank question is ever
\* answered; and a rejection leaves the counts of model calls and of rows
\* as they were.
C29_AskRejections ==
    [][ qa' # qa =>
            /\ qa'.status \in {200, 400}
            /\ "current" \notin DOMAIN building_data_store =>
                   (qa'.status = 400 /\ qa'.detail = "upload first")
            /\ qa'.status = 200 =>
                   \A a \in qa'.asked : a[1] \notin BlankQuestions
            /\ qa'.status = 400 =>
                   /\ qa'.llm_calls = qa.llm_calls
                   /\ qa'.rows = qa.rows
                   /\ qa'.asked = qa.asked
                   /\ UNCHANGED <<db_rows, building_data_store, cacheVars>>
      ]_vars

\* After an upload and one answered question, a blank question was
\* rejected: one model call and no more.
C29_Witness ==
    /\ "current" \in DOMAIN building_data_store
    /\ qa.status = 400
    /\ qa.detail = "empty question"
    /\ qa.llm_calls = 1
    /\ Cardinality(qa.asked) = 1

(***************************************************************************)
(* The record fingerprint.  A Python value is an int, a str, an object     *)
(* that json cannot serialise (with its identity and its str()), a list,   *)
(* or a dict kept as the sequence of its items in insertion order.         *)
(***************************************************************************)

PyInt(n) == [int |-> n]

PyStr(text) == [str |-> text]

PyObj(id, display) == [obj |-> display, id |-> id]

PyList(items) == [list |-> items]

PyDict(items) == [dict |-> items]

Item(key, value) == [key |-> key, value |-> value]

IsA(v, kind) == kind \in DOMAIN v

\* sorted(): the order of the keys as strings
KeyOrder == <<"a", "b">>

\* a dump that writes the items in insertion order
SortedItems_insertion(items) == items

\* sort_keys=True: the items of a dict in the order of their keys
SortedItems(items) ==
    LET has(k) == \E i \in 1..Len(items) : items[i].key = k
        present == SelectSeq(KeyOrder, has)
    IN  [i \in 1..Len(present) |->
            CHOOSE it \in {items[j] : j \in 1..Len(items)} : it.key = present[i]]

RECURSIVE Join(_)
\* ", ".join(parts)
Join(parts) ==
    IF parts = <<>> THEN ""
    ELSE IF Len(parts) = 1 THEN parts[1]
    ELSE parts[1] \o ", " \o Join(Tail(parts))

Quote(text) == "\"" \o text \o "\""

RECURSIVE JsonDumps(_)
\* json.dumps(data, sort_keys=True, default=str)
JsonDumps(v) ==
    IF IsA(v, "obj") THEN Quote(v.obj)
    ELSE IF IsA(v, "int") THEN ToString(v.int)
    ELSE IF IsA(v, "str") THEN Quote(v.str)
    ELSE IF IsA(v, "list")
    THEN "[" \o Join([i \in 1..Len(v.list) |-> JsonDumps(v.list[i])]) \o "]"
    ELSE LET items == SortedItems(v.dict) IN
         "{" \o Join([i \in 1..Len(items) |->
                         Quote(items[i].key) \o ": " \o JsonDumps(items[i].value)])
             \o "}"

\* hashlib.md5(...).hexdigest(): distinct strings, distinct digests
Md5(text) == "md5(" \o text \o ")"

\* CacheService.get_data_signature on a Python value
DataSignature(data) == Md5(JsonDumps(data))

RECURSIVE AsMapping(_)
\* The value with every dict taken as a mapping: its items without their
\* order.
AsMapping(v) ==
    IF IsA(v, "list")
    THEN [list |-> [i \in 1..Len(v.list) |-> AsMapping(v.list[i])]]
    ELSE IF IsA(v, "dict")
    THEN [dict |-> { Item(v.dict[i].key, AsMapping(v.dict[i].value)) :
                       i \in 1..Len(v.dict) }]
    ELSE v

RECURSIVE Displayed(_)
\* The value with every object replaced by its str().
Displayed(v) ==
    IF IsA(v, "obj") THEN PyStr(v.obj)
    ELSE IF IsA(v, "list")
    THEN [list |-> [i \in 1..Len(v.list) |-> Displayed(v.list[i])]]
    ELSE IF IsA(v, "dict")
    THEN [dict |-> [i \in 1..Len(v.dict) |->
                       Item(v.dict[i].key, Displayed(v.dict[i].value))]]
    ELSE v

\* The values fingerprinted: scalars and a list as the values of dicts of
\* one or two items in either insertion order, and such dicts nested in a
\* dict and in a list.
Leaves ==
    {PyInt(1), PyInt(2), PyStr("x"), PyObj(1, "x"), PyObj(2, "x"),
     PyList(<<PyInt(1), PyInt(2)>>), PyList(<<PyInt(2), PyInt(1)>>)}

DictsOver(values) ==
    {PyDict(<<Item(k, v)>>) : k \in {"a", "b"}, v \in values}
        \cup {PyDict(<<Item("a", v), Item("b", w)>>) : v \in values, w \in values}
        \cup {PyDict(<<Item("b", w), Item("a", v)>>) : v \in values, w \in values}

Inner ==
    {PyDict(<<Item("a", PyInt(1)), Item("b", PyInt(2))>>),
     PyDict(<<Item("b", PyInt(2)), Item("a", PyInt(1))>>),
     PyDict(<<Item("a", PyInt(1))>>)}

Records ==
    DictsOver(Leaves)
        \cup {PyDict(<<Item("a", d)>>) : d \in Inner}
        \cup {PyDict(<<Item("a", PyList(<<d>>))>>) : d \in Inner}

\* Two records are at hand.
SignatureInit ==
    /\ now = 0
    /\ file_cache = EmptyDict
    /\ analysis_cache = EmptyDict
    /\ \E r1 \in Records, r2 \in Records :
           last = Call("data", NoKey, Some(<<r1, r2>>), None, "-", Removed(0, 0))
    /\ file_puts = EmptyDict
    /\ analysis_puts = EmptyDict
    /\ cleared = FALSE
    /\ pc = [t \in Threads |-> "idle"]
    /\ frame = [t \in Threads |-> IdleFrame]
    /\ calls = 0
    /\ put_done = NoPuts
    /\ disturbed = FALSE
    /\ up = [r \in Requests |-> IdleUpload]
    /\ loop = NoRequest
    /\ building_data_store = EmptyDict
    /\ resp = [r \in Requests |-> NoResponse]
    /\ uploads = 0
    /\ env = [api_key |-> TRUE, supabase |-> TRUE]
    /\ db_rows = 0
    /\ qa = NoAnswer
    /\ returned = EmptyDict
    /\ st = [p \in Processes |-> IdleStore]
    /\ user_sessions = EmptyDict
    /\ store_log = NoStores

\* get_data_signature is called on each of the two records.
sign ==
    /\ last.op = "data"
    /\ last' = [last EXCEPT !.op = "get_data_signature",
                            !.ret = Some(<<DataSignature(last.arg.some[1]),
                                           DataSignature(last.arg.some[2])>>)]
    /\ UNCHANGED <<now, cacheVars, file_puts, analysis_puts, cleared,
                   threadVars, appVars>>

SpecSignature == SignatureInit /\ [][sign]_vars

(***************************************************************************)
(* Properties of the record fingerprint under SpecSignature                *)
(***************************************************************************)

Signed == last.op = "get_data_signature"

AnsweredFromCache(r) == resp'[r] # resp[r] /\ resp'[r].status = 200 /\ resp'[r].cached

\* C23: a cached upload replays the populating upload.  Whenever an upload
\* is answered from the file cache, an earlier uncached upload of the same
\* bytes returned a success response, and the building_data and analysis of
\* the cached response are exactly those of the latest such response.
C23_CachedReplaysPopulating ==
    [][ \A r \in Requests :
            AnsweredFromCache(r) =>
                LET file_hash == get_file_hash(resp'[r].content) IN
                /\ file_hash \in DOMAIN returned
                /\ Body(resp'[r]) = returned[file_hash] ]_vars

\* r1 uploaded bytes that were computed and answered with the text a1; r2
\* then uploaded the same bytes and was answered from the cache with the
\* record and the text r1 was given.
C23_Witness ==
    /\ resp["r1"].status = 200 /\ ~resp["r1"].cached /\ resp["r1"].analysis = "a1"
    /\ resp["r2"].status = 200 /\ resp["r2"].cached
    /\ resp["r2"].content = resp["r1"].content
    /\ Body(resp["r2"]) = returned[get_file_hash(resp["r2"].content)]
    /\ resp["r2"].analysis = "a1"

\* The keys of a dict whose entries are older than the TTL.
Stale(cache) == {k \in DOMAIN cache : KeyStatus(cache, k, now) = "stale"}

\* Request r looks up key k of the file cache in this step.
LooksUpFile(r, k) ==
    /\ up[r].pc = "reading"
    /\ get_file_hash(up[r].content) = k
    /\ UploadStep(r)

\* Request r looks up key k of the analysis cache in this step.
LooksUpAnalysis(r, k) ==
    /\ up[r].pc = "analyze"
    /\ get_data_signature(up[r].building_data) = k
    /\ UploadStep(r)

\* C25: in the running application nothing sweeps.  An entry leaves a cache
\* only in a step that looks up its own key after its TTL has elapsed;
\* every other step leaves every resident entry resident, the stale ones
\* too, and the statistics count them all.
C25_NoSweepTrigger ==
    [][ /\ \A k \in (DOMAIN file_cache) \ (DOMAIN file_cache') :
               /\ k \in Stale(file_cache)
               /\ \E r \in Requests : LooksUpFile(r, k)
        /\ \A k \in (DOMAIN analysis_cache) \ (DOMAIN analysis_cache') :
               /\ k \in Stale(analysis_cache)
               /\ \E r \in Requests : LooksUpAnalysis(r, k)
        /\ LET stats == GetCacheStats(file_cache', analysis_cache') IN
           /\ stats.file_cache_size >= Cardinality(Stale(file_cache) \cap DOMAIN file_cache')
           /\ stats.analysis_cache_size
                  >= Cardinality(Stale(analysis_cache) \cap DOMAIN analysis_cache')
      ]_vars

\* Every upload has been served, the last of them after the entry of an
\* earlier one had expired: that entry is still resident, next to a fresh
\* one, and the statistics count two file entries.
C25_Witness ==
    /\ uploads = MaxUploads
    /\ \A r \in Requests : up[r].pc = "idle"
    /\ Stale(file_cache) # {}
    /\ Stale(file_cache) # DOMAIN file_cache
    /\ GetCacheStats(file_cache, analysis_cache).file_cache_size = 2

\* Request r arrives with a file name that does not end in .ifc and is
\* answered in the same step.
RejectedName(r) == up[r].pc = "idle" /\ up'[r].pc = "idle" /\ resp'[r] # resp[r]

\* Request r, its body read, is found to carry more than MAX_FILE_SIZE bytes.
RejectedSize(r) ==
    /\ up[r].pc = "reading"
    /\ FileSize(up[r].content) > MAX_FILE_SIZE
    /\ UploadStep(r)

\* C27: upload validation errors keep their status.  An upload whose file
\* name does not end in .ifc is answered with status 400, and one whose
\* content exceeds MAX_FILE_SIZE with status 413.
C27_ValidationStatusKept ==
    [][ \A r \in Requests :
            /\ RejectedName(r) => resp'[r].status = 400
            /\ RejectedSize(r) => resp'[r].status = 413 ]_vars

\* Request r is answered with an error in this step.
Errs(r) == resp'[r] # resp[r] /\ resp'[r].status \in {400, 413, 500}

\* Where the handler stands before its first put.
BeforePut == {"idle", "reading", "parse", "analyze"}

\* No entry is added to d1 or replaced in it on the way to d2.
NoneAdded(d1, d2) ==
    /\ DOMAIN d2 \subseteq DOMAIN d1
    /\ \A k \in DOMAIN d2 : d2[k] = d1[k]

\* C28: an upload that ends in an error response adds no entry to either
\* cache and leaves the session store as it was.  The error responses are
\* given from the steps before the first put (the file name, the size, the
\* parser, the API key), and neither such a step nor any step that led to
\* it adds or replaces a cache entry or assigns to the session store.
C28_ErrorLeavesNoTrace ==
    [][ \A r \in Requests :
            /\ Errs(r) => up[r].pc \in BeforePut
            /\ (UploadStep(r) /\ (Errs(r) \/ up'[r].pc \in BeforePut \ {"idle"})) =>
                   /\ NoneAdded(file_cache, file_cache')
                   /\ NoneAdded(analysis_cache, analysis_cache')
                   /\ UNCHANGED <<building_data_store, db_rows>> ]_vars

\* After an upload was computed, cached and stored, an upload of a file the
\* parser cannot open was answered with status 500: the cache holds the one
\* entry and the session store the record of the first upload.
C28_Witness ==
    /\ resp["r1"].status = 200 /\ ~resp["r1"].cached
    /\ resp["r2"].status = 500 /\ resp["r2"].parsed
    /\ DOMAIN file_cache = {get_file_hash(resp["r1"].content)}
    /\ DictLen(analysis_cache) = 1
    /\ building_data_store["current"] = resp["r1"].building_data

(***************************************************************************)
(* Properties of the session store under SpecAsk                           *)
(***************************************************************************)

\* C26: after every upload that returned a success response, computed or
\* served from the cache, the current building data of the session store
\* is the building_data of that response.
C26_SessionFollowsUpload ==
    resp[Client].status = 200 =>
        /\ "current" \in DOMAIN building_data_store
        /\ building_data_store["current"] = resp[Client].building_data

(***************************************************************************)
(* Properties of the database store under SpecStore                        *)
(***************************************************************************)

\* No call of store_analysis_result is under way.
Quiet == \A p \in Processes : st[p].pc = "idle"

\* C30: the per-user analysis counter matches the stored analyses.  When
\* no store is under way, a user for whom no call returned an id has no
\* session row, and for every other user total_analyses is the number of
\* calls that returned an id for that user.
C30_CounterMatchesStores ==
    Quiet =>
        \A u \in Users :
            IF store_log.returned[u] = 0
            THEN u \notin DOMAIN user_sessions
            ELSE /\ u \in DOMAIN user_sessions
                 /\ \A i \in DOMAIN user_sessions[u] :
                        user_sessions[u][i] = store_log.returned[u]

====
